---- MODULE Spec2Model ----
(***************************************************************************)
(* Process-management and address-space syscalls of the kernel             *)
(* (os/src/syscall/process.rs) and the first-dispatch routine of spawned   *)
(* tasks (os/src/task/context.rs).                                         *)
(*                                                                         *)
(* A task control block is identified by its pid: a pid belongs to at most *)
(* one control block at a time and is handed out again only after the      *)
(* control block that held it was dropped.  The kernel runs one task at a  *)
(* time and a syscall handler runs without interruption, so every handler  *)
(* is one step.                                                            *)
(***************************************************************************)
EXTENDS Integers, Sequences, FiniteSets, TLC

VARIABLES
    tasks,      \* pid -> control block (status "Free": no control block)
    ready,      \* the run queue, head first
    current,    \* the pid of the Running task
    apps,       \* the names the loader has an image for
    panic,      \* the kernel panicked: a task that called exit was switched
                \* to again, or an assertion of a handler failed
    removed,    \* how many images the loader lost
    clock,      \* the wall clock as the kernel last read it
    last        \* the last kernel path taken: who called what, and the result

vars == <<tasks, ready, current, apps, panic, removed, clock, last>>

----------------------------------------------------------------------------
(* Bounds of the model *)

\* number of pids the allocator can hand out (pids 0 .. MaxTasks-1)
MaxTasks == 3
\* how many times the loader's set of images may lose an image
MaxRemovals == 1
\* pages of user address space the mmap inputs range over
MaxPage == 2
\* MAX_SYSCALL_NUM, the length of TaskInfo.syscall_times, scaled down
MaxSyscallNum == 2

----------------------------------------------------------------------------
(* Program constants *)

PAGE_SIZE == 4096

\* width of usize, scaled down
UsizeMod == 2 ^ 16

Pids == 0 .. (MaxTasks - 1)
NoPid == 0 - 1
INITPROC == 0

ExitCodes == {0, 2}
\* what user code may have left in a0 when it traps
A0Vals == {0, 7}
AppNames == {"app"}
Paths == AppNames \cup {"missing"}
NoImage == "none"
NoPath == ""

\* the arguments mmap and munmap are called with: page-aligned starts and
\* one that is not, lengths that are multiples of the page size and some
\* that are not, ports with and without access bits and high bits
Starts == {p * PAGE_SIZE : p \in 0 .. (MaxPage - 1)} \cup {PAGE_SIZE + 8}
Lens == {0, 1, PAGE_SIZE, PAGE_SIZE + 1, 2 * PAGE_SIZE}
Ports == {0, 5, 8, 10}

\* where the image's user stack starts, above every address mmap is asked for
StackBase == (MaxPage + 3) * PAGE_SIZE

\* the user pointers a caller passes for the exit code: in its stack
ExitCodePtrs == {StackBase + 8}

\* the out-pointers user code can pass: into one page of the stack, two
\* bytes below the boundary between its two pages, into the image's
\* read-only page, and above the stack where nothing is mapped
UserPtrs ==
    {StackBase + 8, StackBase + PAGE_SIZE - 2, 8, StackBase + 2 * PAGE_SIZE}

\* sizes of the values written through user pointers: i32, TimeVal (two
\* usize), TaskInfo (status, syscall_times, time)
I32Bytes == 4
UsizeBytes == 8
TimeValBytes == 2 * UsizeBytes
TaskInfoBytes == UsizeBytes + I32Bytes * MaxSyscallNum + UsizeBytes

\* the literals of the time arithmetic
MicrosPerSec == 1000000
Thousand == 1000
SecMask == 65535

\* get_time_us() exceeds the integers of the checker once the seconds pass
\* 0xffff, so a reading us is kept as its quotient and remainder by
\* 1_000_000
ClockReadings ==
    {[sec |-> sec, usec |-> usec] :
        sec \in {0, SecMask, SecMask + 1}, usec \in {0, MicrosPerSec - 1}}
NoStore == <<>>

----------------------------------------------------------------------------
(* Data *)

\* the regions an address space has right after an image was loaded into it
ImageAreas ==
    {[start |-> 0, end |-> PAGE_SIZE, perm |-> {"U", "R", "X"}],
     [start |-> StackBase, end |-> StackBase + 2 * PAGE_SIZE,
      perm |-> {"U", "R", "W"}]}

MemorySetOf(image) == [image |-> image, areas |-> ImageAreas]
EmptyMemorySet == [image |-> NoImage, areas |-> {}]

\* a pid without a control block
FreeTask ==
    [status |-> "Free", parent |-> NoPid, children |-> <<>>, exit_code |-> 0,
     trap_cx |-> [x10 |-> 0, sepc |-> NoImage], memory_set |-> EmptyMemorySet,
     cmd_path |-> NoPath, pc |-> "user", leaked |-> 0, running_time |-> 0]

RECURSIVE SeqCount(_, _)
SeqCount(s, x) ==
    IF s = <<>> THEN 0
    ELSE (IF Head(s) = x THEN 1 ELSE 0) + SeqCount(Tail(s), x)

RECURSIVE SumOver(_, _)
SumOver(S, f) ==
    IF S = {} THEN 0
    ELSE LET x == CHOOSE y \in S : TRUE IN f[x] + SumOver(S \ {x}, f)

SeqRemove(s, idx) == SubSeq(s, 1, idx - 1) \o SubSeq(s, idx + 1, Len(s))

Range(s) == {s[i] : i \in 1 .. Len(s)}

Allocated(k) == {p \in Pids : k.tasks[p].status # "Free"}

\* Arc::strong_count of the control block of pid p: the references held by
\* children collections, by the run queue, by the processor (current task),
\* and the references a diverging kernel path never dropped
StrongCount(k, p) ==
    SumOver(Allocated(k), [q \in Pids |-> SeqCount(k.tasks[q].children, p)])
      + SeqCount(k.ready, p)
      + (IF k.current = p THEN 1 ELSE 0)
      + k.tasks[p].leaked

\* dropping the last strong reference drops the control block, which drops
\* its children collection in turn
RECURSIVE DropUnreferenced(_)
DropUnreferenced(k) ==
    LET dead == {p \in Allocated(k) : StrongCount(k, p) = 0} IN
    IF dead = {} THEN k
    ELSE DropUnreferenced(
           [k EXCEPT !.tasks = [p \in Pids |->
               IF p \in dead THEN FreeTask
               ELSE IF k.tasks[p].parent \in dead
                    THEN [k.tasks[p] EXCEPT !.parent = NoPid]
                    ELSE k.tasks[p]]])

----------------------------------------------------------------------------
(* Scheduler and control-block operations the syscalls call into *)

\* loader: the image a name denotes, if the loader knows the name
get_app_data_by_name(k, path) == path \in k.apps

\* add_task: the task goes to the tail of the run queue
add_task(k, p) == [k EXCEPT !.ready = Append(k.ready, p)]

\* TaskContext::goto_trap_return: the first dispatch of a forked task goes
\* to trap_return, which restores the trap context and enters user mode
goto_trap_return == "trap_return"

\* TaskContext::goto_trap_exec: the first dispatch of a spawned task goes to
\* trap_exec
goto_trap_exec == "trap_exec"

\* the scheduler hands the processor to the task at the head of the run
\* queue; a task that is switched to resumes where its kernel path stopped:
\* a new task at the ra of its task context, a suspended task on its way back
\* to user mode, and a task that called exit behind the call that was never
\* to return
run_next(k) ==
    IF k.ready = <<>> THEN [k EXCEPT !.current = NoPid]
    ELSE LET n == Head(k.ready) IN
         [k EXCEPT !.current = n,
                   !.ready = Tail(k.ready),
                   !.tasks[n].status = "Running",
                   !.tasks[n].pc = IF @ = goto_trap_return THEN "user" ELSE @,
                   !.panic = k.panic \/ k.tasks[n].status = "Zombie"]

\* suspend_current_and_run_next: Running -> Ready at the tail, then switch
suspend_current_and_run_next(k) ==
    LET t == k.current IN
    run_next(add_task([k EXCEPT !.tasks[t].status = "Ready"], t))

\* exit_current_and_run_next: Zombie with the exit code, address space
\* released (the trap context lives in it), off the scheduler, then switch
exit_current_and_run_next(k, exit_code) ==
    LET t == k.current IN
    DropUnreferenced(
      run_next([k EXCEPT !.tasks[t].status = "Zombie",
                         !.tasks[t].exit_code = exit_code,
                         !.tasks[t].memory_set = EmptyMemorySet,
                         !.tasks[t].trap_cx = FreeTask.trap_cx,
                         !.current = NoPid]))

\* TaskControlBlock::fork: a copy of the caller under a new pid, linked into
\* the caller's children
tcb_fork(k, child) ==
    LET t == k.current IN
    [k EXCEPT !.tasks[child] =
                 [FreeTask EXCEPT !.status = "Ready",
                                  !.parent = t,
                                  !.trap_cx = k.tasks[t].trap_cx,
                                  !.memory_set = k.tasks[t].memory_set,
                                  !.pc = goto_trap_return],
              !.tasks[t].children = Append(k.tasks[t].children, child)]

\* TaskControlBlock::exec: the address space and the trap context are
\* replaced by the image's; pid, parent and children stay
tcb_exec(k, t, image) ==
    [k EXCEPT !.tasks[t].memory_set = MemorySetOf(image),
              !.tasks[t].trap_cx = [x10 |-> 0, sepc |-> image]]

\* TaskControlBlock::spawn: a new task with none of the caller's address
\* space, whose first dispatch enters trap_exec with the path to load
tcb_spawn(k, child, path) ==
    LET t == k.current IN
    [k EXCEPT !.tasks[child] =
                 [FreeTask EXCEPT !.status = "Ready",
                                  !.parent = t,
                                  !.cmd_path = path,
                                  !.pc = goto_trap_exec],
              !.tasks[t].children = Append(k.tasks[t].children, child)]

\* whether [start_va, end_va) and the region r have an address in common
Intersects(start_va, end_va, r) ==
    (IF start_va > r.start THEN start_va ELSE r.start)
       < (IF end_va < r.end THEN end_va ELSE r.end)

\* MemorySet::mmap_allocate_area (allocate_region): Overlap when the range
\* intersects a region, InvalidPermission without an access bit, else the
\* region is inserted.  The operation requires end_va > start_va; what a
\* call outside of that does is not fixed, so it may fail or insert.
\* The set of possible outcomes.
mmap_allocate_area(ms, start_va, end_va, permission) ==
    LET Err == [ok |-> FALSE, ms |-> ms]
        Ok == [ok |-> TRUE,
               ms |-> [ms EXCEPT !.areas = @ \cup
                         {[start |-> start_va, end |-> end_va, perm |-> permission]}]]
    IN  IF \E r \in ms.areas : Intersects(start_va, end_va, r) THEN {Err}
        ELSE IF permission \subseteq {"U"} THEN {Err}
        ELSE IF end_va > start_va THEN {Ok}
        ELSE {Ok, Err}

\* MemorySet::unmap_free_area (free_region): the region with exactly these
\* bounds is removed; NotFound when there is none
unmap_free_area(ms, start_va, end_va) ==
    LET hit == {r \in ms.areas : r.start = start_va /\ r.end = end_va}
    IN  IF hit = {} THEN [ok |-> FALSE, ms |-> ms]
        ELSE [ok |-> TRUE, ms |-> [ms EXCEPT !.areas = @ \ hit]]

----------------------------------------------------------------------------
(* Syscalls: each gives the kernel state after the call, the value         *)
(* returned, and the value stored through the user pointer, if any         *)

Result(k, ret) == [k |-> k, ret |-> ret, store |-> NoStore]

NoReturn == "noreturn"

as_usize(x) == IF x < 0 THEN x + UsizeMod ELSE x

\* sys_exit calling suspend_current_and_run_next
sys_exit_suspend(k, exit_code) ==
    Result(suspend_current_and_run_next(k), NoReturn)

sys_exit(k, exit_code) ==
    LET k1 == [k EXCEPT !.tasks[k.current].pc = "sys_exit"]
    IN  Result(exit_current_and_run_next(k1, exit_code), NoReturn)

sys_yield(k) ==
    Result(suspend_current_and_run_next(k), 0)

\* sys_fork without the store of 0 to the child's x[10]
sys_fork_keep_a0(k, new_pid) ==
    LET k1 == tcb_fork(k, new_pid)
        k3 == add_task(k1, new_pid)
    IN  Result(k3, new_pid)

sys_fork(k, new_pid) ==
    LET k1 == tcb_fork(k, new_pid)
        k2 == [k1 EXCEPT !.tasks[new_pid].trap_cx.x10 = 0]
        k3 == add_task(k2, new_pid)
    IN  Result(k3, new_pid)

\* sys_exec replacing the address space before it knows the image exists
sys_exec_unchecked(k, path) ==
    IF get_app_data_by_name(k, path)
    THEN Result(tcb_exec(k, k.current, path), 0)
    ELSE Result(tcb_exec(k, k.current, NoImage), 0 - 1)

sys_exec(k, path) ==
    IF get_app_data_by_name(k, path)
    THEN Result(tcb_exec(k, k.current, path), 0)
    ELSE Result(k, 0 - 1)

\* the closure both searches of sys_waitpid apply to a child
WaitMatch(pid, p) == pid = 0 - 1 \/ as_usize(pid) = p

\* sys_waitpid collecting the last matching Zombie child instead of the first
sys_waitpid_last_match(k, pid, exit_code_ptr) ==
    LET t == k.current
        children == k.tasks[t].children
        found == {i \in 1 .. Len(children) :
                     k.tasks[children[i]].status = "Zombie"
                       /\ WaitMatch(pid, children[i])}
    IN  IF ~ \E i \in 1 .. Len(children) : WaitMatch(pid, children[i])
        THEN Result(k, 0 - 1)
        ELSE IF found # {}
        THEN LET idx == CHOOSE i \in found : \A j \in found : i >= j
                 child == children[idx]
                 exit_code == k.tasks[child].exit_code
                 k1 == [k EXCEPT !.tasks[t].children = SeqRemove(children, idx)]
             IN  [k |-> DropUnreferenced(k1), ret |-> child,
                  store |-> <<exit_code_ptr, exit_code>>]
        ELSE Result(k, 0 - 2)

\* sys_waitpid leaving the collected child in the children collection
sys_waitpid_keep_child(k, pid, exit_code_ptr) ==
    LET t == k.current
        children == k.tasks[t].children
        found == {i \in 1 .. Len(children) :
                     k.tasks[children[i]].status = "Zombie"
                       /\ WaitMatch(pid, children[i])}
    IN  IF ~ \E i \in 1 .. Len(children) : WaitMatch(pid, children[i])
        THEN Result(k, 0 - 1)
        ELSE IF found # {}
        THEN LET idx == CHOOSE i \in found : \A j \in found : i <= j
                 child == children[idx]
                 exit_code == k.tasks[child].exit_code
             IN  [k |-> k, ret |-> child,
                  store |-> <<exit_code_ptr, exit_code>>]
        ELSE Result(k, 0 - 2)

\* sys_waitpid looking for the pid among all tasks instead of the children
sys_waitpid_any_task(k, pid, exit_code_ptr) ==
    LET t == k.current
        children == k.tasks[t].children
        found == {i \in 1 .. Len(children) :
                     k.tasks[children[i]].status = "Zombie"
                       /\ WaitMatch(pid, children[i])}
    IN  IF ~ \E q \in Allocated(k) \ {t} : WaitMatch(pid, q)
        THEN Result(k, 0 - 1)
        ELSE IF found # {}
        THEN LET idx == CHOOSE i \in found : \A j \in found : i <= j
                 child == children[idx]
                 exit_code == k.tasks[child].exit_code
                 k1 == [k EXCEPT !.tasks[t].children = SeqRemove(children, idx)]
             IN  [k |-> DropUnreferenced(k1), ret |-> child,
                  store |-> <<exit_code_ptr, exit_code>>]
        ELSE Result(k, 0 - 2)

sys_waitpid(k, pid, exit_code_ptr) ==
    LET t == k.current
        children == k.tasks[t].children
        found == {i \in 1 .. Len(children) :
                     k.tasks[children[i]].status = "Zombie"
                       /\ WaitMatch(pid, children[i])}
    IN  IF ~ \E i \in 1 .. Len(children) : WaitMatch(pid, children[i])
        THEN Result(k, 0 - 1)
        ELSE IF found # {}
        THEN LET idx == CHOOSE i \in found : \A j \in found : i <= j
                 child == children[idx]
                 exit_code == k.tasks[child].exit_code
                 k1 == [k EXCEPT !.tasks[t].children = SeqRemove(children, idx)]
             IN  [k |-> DropUnreferenced(k1), ret |-> child,
                  store |-> <<exit_code_ptr, exit_code>>]
        ELSE Result(k, 0 - 2)

\* sys_spawn without the lookup of the image
sys_spawn_unchecked(k, new_pid, path) ==
    IF new_pid = NoPid
    THEN Result(k, 0 - 1)
    ELSE Result(add_task(tcb_spawn(k, new_pid, path), new_pid), new_pid)

\* sys_spawn handing the task to the scheduler before it counts the
\* references
sys_spawn_add_first(k, new_pid, path) ==
    IF ~ get_app_data_by_name(k, path)
    THEN Result(k, 0 - 1)
    ELSE LET k1 == add_task(tcb_spawn(k, new_pid, path), new_pid)
         IN  IF StrongCount(k1, new_pid) + 1 # 2
             THEN Result([k1 EXCEPT !.panic = TRUE], 0 - 1)
             ELSE Result(k1, new_pid)

\* the local new_task is one strong reference more than the state holds;
\* assert_eq! panics when the count is not 2
sys_spawn(k, new_pid, path) ==
    IF ~ get_app_data_by_name(k, path)
    THEN Result(k, 0 - 1)
    ELSE LET k1 == tcb_spawn(k, new_pid, path)
         IN  IF StrongCount(k1, new_pid) + 1 # 2
             THEN Result([k1 EXCEPT !.panic = TRUE], 0 - 1)
             ELSE Result(add_task(k1, new_pid), new_pid)

\* len rounded up to a multiple of the page size, as sys_mmap does it
RoundedLen(len) ==
    IF len % PAGE_SIZE > 0
    THEN (len + PAGE_SIZE) - ((len + PAGE_SIZE) % PAGE_SIZE)
    ELSE len

\* port & bit > 0, for bit a power of two
PortBit(port, bit) == (port \div bit) % 2 = 1

\* the MapPermission sys_mmap builds from port
PortPermission(port) ==
    {"U"} \cup (IF PortBit(port, 1) THEN {"R"} ELSE {})
          \cup (IF PortBit(port, 2) THEN {"W"} ELSE {})
          \cup (IF PortBit(port, 4) THEN {"X"} ELSE {})

\* sys_mmap without the test for bits of port above bit 2
sys_mmap_any_high_bits(k, start, len, port) ==
    IF start % PAGE_SIZE # 0 THEN {Result(k, 0 - 1)}
    ELSE LET t == k.current
             start_va == start
             end_va == start + RoundedLen(len)
             permission == PortPermission(port)
         IN  IF permission = {"U"}
             THEN {Result(k, 0 - 1)}
             ELSE {IF o.ok
                   THEN Result([k EXCEPT !.tasks[t].memory_set = o.ms], 0)
                   ELSE Result(k, 0 - 1) :
                     o \in mmap_allocate_area(k.tasks[t].memory_set,
                                              start_va, end_va, permission)}

\* sys_mmap answering 0 whatever the allocator says
sys_mmap_err_is_ok(k, start, len, port) ==
    IF start % PAGE_SIZE # 0 THEN {Result(k, 0 - 1)}
    ELSE LET t == k.current
             start_va == start
             end_va == start + RoundedLen(len)
             permission == PortPermission(port)
         IN  IF (port - (port % 8)) > 0 \/ permission = {"U"}
             THEN {Result(k, 0 - 1)}
             ELSE {IF o.ok
                   THEN Result([k EXCEPT !.tasks[t].memory_set = o.ms], 0)
                   ELSE Result(k, 0) :
                     o \in mmap_allocate_area(k.tasks[t].memory_set,
                                              start_va, end_va, permission)}

\* sys_mmap up to its call of mmap_allocate_area: whether it gets that far,
\* and the range and permission it passes
mmap_allocate_args(start, len, port) ==
    LET start_va == start
        end_va == start + RoundedLen(len)
        permission == PortPermission(port)
    IN  [call |-> /\ start % PAGE_SIZE = 0
                  /\ ~((port - (port % 8)) > 0 \/ permission = {"U"}),
         start_va |-> start_va, end_va |-> end_va, permission |-> permission]

\* the set of possible outcomes of sys_mmap (one, unless the range is empty)
sys_mmap(k, start, len, port) ==
    LET t == k.current
        c == mmap_allocate_args(start, len, port)
    IN  IF ~c.call THEN {Result(k, 0 - 1)}
        ELSE {IF o.ok
              THEN Result([k EXCEPT !.tasks[t].memory_set = o.ms], 0)
              ELSE Result(k, 0 - 1) :
                o \in mmap_allocate_area(k.tasks[t].memory_set,
                                         c.start_va, c.end_va, c.permission)}

\* sys_munmap rounding len up to a page as sys_mmap does
sys_munmap_round_len(k, start, len) ==
    IF start % PAGE_SIZE # 0 THEN Result(k, 0 - 1)
    ELSE LET t == k.current
             start_va == start
             end_va == start + RoundedLen(len)
             o == unmap_free_area(k.tasks[t].memory_set, start_va, end_va)
         IN  IF o.ok
             THEN Result([k EXCEPT !.tasks[t].memory_set = o.ms], 0)
             ELSE Result(k, 0 - 1)

sys_munmap(k, start, len) ==
    IF start % PAGE_SIZE # 0 THEN Result(k, 0 - 1)
    ELSE LET t == k.current
             start_va == start
             end_va == start + len
             o == unmap_free_area(k.tasks[t].memory_set, start_va, end_va)
         IN  IF o.ok
             THEN Result([k EXCEPT !.tasks[t].memory_set = o.ms], 0)
             ELSE Result(k, 0 - 1)

\* the regions of an address space that hold the address va
RegionsAt(ms, va) == {r \in ms.areas : r.start <= va /\ va < r.end}

\* the physical frame behind virtual page vpn of task t: the frame allocator
\* hands out frames in no order related to the pages, here so that pages
\* next to each other never get frames next to each other
FrameOf(t, vpn) == 2 * (t * (MaxPage + 6) + vpn)

\* the page table of task t: the physical address of a mapped va
translate_va(t, va) ==
    FrameOf(t, va \div PAGE_SIZE) * PAGE_SIZE + (va % PAGE_SIZE)

\* translated_refmut: the kernel's reference to the value at user address
\* ptr of task t.  The callers use what it gives as a plain reference and
\* have no failure to handle: for an address that is not mapped it can only
\* panic; for one that is mapped without Write it panics or gives the
\* reference, as it checks permissions or not.  The set of outcomes.
translated_refmut(k, t, ptr) ==
    LET at == RegionsAt(k.tasks[t].memory_set, ptr)
        Fault == [fault |-> TRUE, ref |-> 0]
        Ref == [fault |-> FALSE, ref |-> translate_va(t, ptr)]
    IN  IF at = {} THEN {Fault}
        ELSE IF \E r \in at : "W" \notin r.perm THEN {Fault, Ref}
        ELSE {Ref}

\* a handler whose result r stores a value of the given size through a user
\* pointer of task t: what it writes goes to the kernel addresses from the
\* reference on; a panic in translated_refmut ends the kernel path
store_through(r, t, size) ==
    {IF o.fault
     THEN [k |-> [r.k EXCEPT !.panic = TRUE], ret |-> r.ret, store |-> NoStore]
     ELSE [k |-> r.k, ret |-> r.ret,
           store |-> <<r.store[1], r.store[2], o.ref, size>>] :
       o \in translated_refmut(r.k, t, r.store[1])}

\* sys_waitpid with the store of line 114 carried out
sys_waitpid_store(k, pid, exit_code_ptr) ==
    LET r == sys_waitpid(k, pid, exit_code_ptr)
    IN  IF r.store = NoStore THEN {r}
        ELSE store_through(r, k.current, I32Bytes)

\* us / 1_000_000 is us.sec and us % 1_000_000 is us.usec
sys_get_time(k, ts, us) ==
    LET r == [k |-> k, ret |-> 0,
              store |-> <<ts, [sec |-> us.sec, usec |-> us.usec]>>]
    IN  store_through(r, k.current, TimeValBytes)

\* a - b in usize: when b > a the difference borrows from beyond the word
\* (the value is low + 2^64)
wrapping_sub(a, b) == [borrow |-> a < b, low |-> a - b]

\* t of sys_task_info: (sec & 0xffff) * 1000 + usec / 1000
task_info_t(us) == (us.sec % (SecMask + 1)) * Thousand + us.usec \div Thousand

\* sys_task_info; t - running_time below zero panics in a build with
\* overflow checks and wraps in one without
sys_task_info(k, ti, us) ==
    LET inner == k.tasks[k.current]
        time == wrapping_sub(task_info_t(us), inner.running_time)
        r == [k |-> k, ret |-> 0,
              store |-> <<ti, [status |-> inner.status, time |-> time]>>]
        stored == store_through(r, k.current, TaskInfoBytes)
    IN  IF time.borrow
        THEN stored \cup {[k |-> [k EXCEPT !.panic = TRUE], ret |-> 0,
                           store |-> NoStore]}
        ELSE stored

\* trap_exec going on to trap_return when the image is missing
trap_exec_no_exit(k) ==
    LET t == k.current
        path == k.tasks[t].cmd_path
    IN  IF get_app_data_by_name(k, path)
        THEN LET k1 == tcb_exec(k, t, path)
             IN  [k1 EXCEPT !.tasks[t].pc = "user",
                            !.tasks[t].leaked = k.tasks[t].leaked + 1]
        ELSE [k EXCEPT !.tasks[t].pc = "user"]

\* trap_exec: where a spawned task's first dispatch lands
trap_exec(k) ==
    LET t == k.current
        path == k.tasks[t].cmd_path
    IN  IF get_app_data_by_name(k, path)
        THEN LET k1 == tcb_exec(k, t, path)
             IN  [k1 EXCEPT !.tasks[t].pc = "user",
                            !.tasks[t].leaked = k.tasks[t].leaked + 1]
        ELSE exit_current_and_run_next(k, 1)

----------------------------------------------------------------------------
(* Exclusive access to the inner state of tasks: what each kernel path      *)
(* acquires and releases, in order, and where it leaves the processor       *)

Acquire(p) == <<"acquire", p>>
Release(p) == <<"release", p>>
Switch == <<"switch", NoPid>>
TrapReturn == <<"trap_return", NoPid>>

\* a callee that works on the inner state of t and is done with it when it
\* returns: current_user_token, TaskControlBlock::exec
inner_access(t) == <<Acquire(t), Release(t)>>

\* TaskControlBlock::fork and spawn: the parent's inner state for the
\* children collection, inside it the new child's
new_child_access(t, child) ==
    <<Acquire(t), Acquire(child), Release(child), Release(t)>>

\* exit_current_and_run_next and suspend_current_and_run_next: the task's
\* inner state for the status, released before the switch
run_next_access(t) == <<Acquire(t), Release(t), Switch>>

sys_exit_access(k) == run_next_access(k.current)

sys_yield_access(k) == run_next_access(k.current)

sys_fork_access(k, new_pid) ==
    new_child_access(k.current, new_pid) \o <<Acquire(new_pid), Release(new_pid)>>

sys_exec_access(k, path) ==
    inner_access(k.current)
      \o (IF get_app_data_by_name(k, path) THEN inner_access(k.current) ELSE <<>>)

\* the children the find of sys_waitpid looks at: each is acquired for
\* is_zombie and released, up to the first one the closure accepts
RECURSIVE find_access(_, _, _)
find_access(k, pid, children) ==
    IF children = <<>> THEN <<>>
    ELSE LET p == Head(children) IN
         <<Acquire(p), Release(p)>>
           \o (IF k.tasks[p].status = "Zombie" /\ WaitMatch(pid, p) THEN <<>>
               ELSE find_access(k, pid, Tail(children)))

\* sys_waitpid acquiring the child it collects before the caller
sys_waitpid_access_child_first(k, pid) ==
    LET t == k.current
        children == k.tasks[t].children
        found == {i \in 1 .. Len(children) :
                     k.tasks[children[i]].status = "Zombie"
                       /\ WaitMatch(pid, children[i])}
    IN  IF found = {} THEN inner_access(t)
        ELSE LET idx == CHOOSE i \in found : \A j \in found : i <= j
             IN  <<Acquire(children[idx]), Acquire(t), Release(t),
                   Release(children[idx])>>

sys_waitpid_access(k, pid) ==
    LET t == k.current
        children == k.tasks[t].children
        found == {i \in 1 .. Len(children) :
                     k.tasks[children[i]].status = "Zombie"
                       /\ WaitMatch(pid, children[i])}
    IN  IF ~ \E i \in 1 .. Len(children) : WaitMatch(pid, children[i])
        THEN <<Acquire(t), Release(t)>>
        ELSE <<Acquire(t)>>
               \o find_access(k, pid, children)
               \o (IF found # {}
                   THEN LET idx == CHOOSE i \in found : \A j \in found : i <= j
                        IN  <<Acquire(children[idx]), Release(children[idx])>>
                   ELSE <<>>)
               \o <<Release(t)>>

sys_get_time_access(k) == inner_access(k.current)

sys_task_info_access(k) ==
    inner_access(k.current) \o <<Acquire(k.current), Release(k.current)>>

sys_mmap_access(k, start) ==
    IF start % PAGE_SIZE # 0 THEN <<>>
    ELSE <<Acquire(k.current), Release(k.current)>>

sys_munmap_access(k, start) ==
    IF start % PAGE_SIZE # 0 THEN <<>>
    ELSE <<Acquire(k.current), Release(k.current)>>

sys_spawn_access(k, new_pid, path) ==
    inner_access(k.current)
      \o (IF get_app_data_by_name(k, path)
          THEN new_child_access(k.current, new_pid) ELSE <<>>)

\* trap_exec keeping the access it reads cmd_path with
trap_exec_access_held(k) ==
    LET t == k.current IN
    <<Acquire(t)>>
      \o (IF get_app_data_by_name(k, k.tasks[t].cmd_path)
          THEN inner_access(t) \o <<TrapReturn>>
          ELSE run_next_access(t))

\* trap_exec: the access for cmd_path ends with the block it is taken in
trap_exec_access(k) ==
    LET t == k.current IN
    <<Acquire(t), Release(t)>>
      \o (IF get_app_data_by_name(k, k.tasks[t].cmd_path)
          THEN inner_access(t) \o <<TrapReturn>>
          ELSE run_next_access(t))

\* the inner states held after the events of a path, in the order acquired
RECURSIVE HeldAfter(_)
HeldAfter(events) ==
    IF events = <<>> THEN <<>>
    ELSE LET h == HeldAfter(SubSeq(events, 1, Len(events) - 1))
             e == events[Len(events)]
         IN  IF e[1] = "acquire" THEN Append(h, e[2])
             ELSE IF e[1] = "release"
             THEN LET at == {i \in 1 .. Len(h) : h[i] = e[2]}
                  IN  IF at = {} THEN h
                      ELSE SeqRemove(h, CHOOSE i \in at : \A j \in at : i >= j)
             ELSE h

----------------------------------------------------------------------------
(* The state machine *)

K == [tasks |-> tasks, ready |-> ready, current |-> current, apps |-> apps,
      panic |-> panic]

FreePids(k) == Pids \ Allocated(k)

WaitPids == {0 - 2, 0 - 1} \cup Pids

InitTask ==
    [FreeTask EXCEPT !.status = "Running",
                     !.memory_set = MemorySetOf("initproc"),
                     !.trap_cx = [x10 |-> 0, sepc |-> "initproc"]]

Init ==
    /\ tasks = [p \in Pids |-> IF p = INITPROC THEN InitTask ELSE FreeTask]
    /\ ready = <<>>
    /\ current = INITPROC
    /\ apps = AppNames
    /\ panic = FALSE
    /\ removed = 0
    /\ clock = [sec |-> 0, usec |-> 0]
    /\ last = [op |-> "boot", caller |-> NoPid, args |-> <<>>, ret |-> 0,
               store |-> NoStore]

\* the root task with running_time recorded from a reading of the clock, in
\* the unit sys_task_info computes in
InitTime ==
    /\ clock \in ClockReadings
    /\ tasks = [p \in Pids |->
                  IF p = INITPROC
                  THEN [InitTask EXCEPT !.running_time = task_info_t(clock)]
                  ELSE FreeTask]
    /\ ready = <<>>
    /\ current = INITPROC
    /\ apps = AppNames
    /\ panic = FALSE
    /\ removed = 0
    /\ last = [op |-> "boot", caller |-> NoPid, args |-> <<>>, ret |-> 0,
               store |-> NoStore]

\* the trap entry saves the user registers in the caller's trap context;
\* a0 is the one register a handler goes on to copy (fork takes no argument,
\* so a0 holds whatever user code left there)
trap_entry(k, a0) == [k EXCEPT !.tasks[k.current].trap_cx.x10 = a0]

\* the result register: the trap handler stores a syscall's result in the
\* saved a0 of the task that called
syscall_return(k, t, ret) ==
    IF k.tasks[t].status \in {"Free", "Zombie"} THEN k
    ELSE [k EXCEPT !.tasks[t].trap_cx.x10 = ret]

\* a - b for readings of the clock: whether a is not before b
NotBefore(a, b) == a.sec > b.sec \/ (a.sec = b.sec /\ a.usec >= b.usec)

Commit(k0, op, args, ret, store) ==
    LET k == IF op \in {"exit", "trap_exec"} \/ k0.panic THEN k0
             ELSE syscall_return(k0, current, ret) IN
    /\ tasks' = k.tasks
    /\ ready' = k.ready
    /\ current' = k.current
    /\ apps' = k.apps
    /\ panic' = k.panic
    /\ last' = [op |-> op, caller |-> current, args |-> args, ret |-> ret,
                store |-> store]
    /\ clock' = IF op \in {"get_time", "task_info"} THEN args[2] ELSE clock
    /\ UNCHANGED removed

\* the Running task is in user mode and traps into the kernel
InUser == current \in Pids /\ tasks[current].pc = "user" /\ ~ panic

\* the root task never exits
SysExit ==
    /\ InUser
    /\ current # INITPROC
    /\ \E exit_code \in ExitCodes :
         LET r == sys_exit(K, exit_code) IN
         Commit(r.k, "exit", <<exit_code>>, r.ret, r.store)

\* also the timer interrupt, which takes the same path
SysYield ==
    /\ InUser
    /\ LET r == sys_yield(K) IN
       Commit(r.k, "yield", <<>>, r.ret, r.store)

SysFork ==
    /\ InUser
    /\ \E new_pid \in FreePids(K), a0 \in A0Vals :
         LET r == sys_fork(trap_entry(K, a0), new_pid) IN
         Commit(r.k, "fork", <<a0>>, r.ret, r.store)

SysExec ==
    /\ InUser
    /\ \E path \in Paths :
         LET r == sys_exec(K, path) IN
         Commit(r.k, "exec", <<path>>, r.ret, r.store)

SysWaitpid ==
    /\ InUser
    /\ \E pid \in WaitPids, exit_code_ptr \in ExitCodePtrs :
         LET r == sys_waitpid(K, pid, exit_code_ptr) IN
         Commit(r.k, "waitpid", <<pid, exit_code_ptr>>, r.ret, r.store)

SysSpawn ==
    /\ InUser
    /\ \E path \in Paths :
         \E new_pid \in (IF get_app_data_by_name(K, path) THEN FreePids(K)
                         ELSE FreePids(K) \cup {NoPid}) :
            LET r == sys_spawn(K, new_pid, path) IN
            Commit(r.k, "spawn", <<path>>, r.ret, r.store)

SysMmap ==
    /\ InUser
    /\ \E start \in Starts, len \in Lens, port \in Ports :
         \E r \in sys_mmap(K, start, len, port) :
            Commit(r.k, "mmap", <<start, len, port>>, r.ret, r.store)

SysMunmap ==
    /\ InUser
    /\ \E start \in Starts, len \in Lens :
         LET r == sys_munmap(K, start, len) IN
         Commit(r.k, "munmap", <<start, len>>, r.ret, r.store)

\* waitpid with an exit-code pointer of any kind
SysWaitpidStore ==
    /\ InUser
    /\ \E pid \in WaitPids, exit_code_ptr \in UserPtrs :
         \E r \in sys_waitpid_store(K, pid, exit_code_ptr) :
            Commit(r.k, "waitpid", <<pid, exit_code_ptr>>, r.ret, r.store)

\* the clock has gone on to us by the time the handler reads it
SysGetTime ==
    /\ InUser
    /\ \E ts \in UserPtrs, us \in ClockReadings :
         /\ NotBefore(us, clock)
         /\ \E r \in sys_get_time(K, ts, us) :
               Commit(r.k, "get_time", <<ts, us>>, r.ret, r.store)

SysTaskInfo ==
    /\ InUser
    /\ \E ti \in UserPtrs, us \in ClockReadings :
         /\ NotBefore(us, clock)
         /\ \E r \in sys_task_info(K, ti, us) :
               Commit(r.k, "task_info", <<ti, us>>, r.ret, r.store)

\* the first dispatch of a spawned task
TrapExec ==
    /\ current \in Pids /\ tasks[current].pc = goto_trap_exec /\ ~ panic
    /\ Commit(trap_exec(K), "trap_exec", <<>>, NoReturn, NoStore)

\* the loader loses an image (a step of the environment)
RemoveApp ==
    /\ removed < MaxRemovals
    /\ \E a \in apps :
         /\ apps' = apps \ {a}
         /\ removed' = removed + 1
         /\ last' = [op |-> "remove_app", caller |-> NoPid, args |-> <<a>>,
                     ret |-> 0, store |-> NoStore]
         /\ UNCHANGED <<tasks, ready, current, panic, clock>>

Next ==
    \/ SysExit
    \/ SysYield
    \/ SysFork
    \/ SysExec
    \/ SysWaitpid
    \/ SysSpawn
    \/ TrapExec

\* the program: the loader's images are linked into the kernel and stay
Spec == Init /\ [][Next]_vars

NextVanish ==
    \/ SysExit
    \/ SysYield
    \/ SysFork
    \/ SysExec
    \/ SysWaitpid
    \/ SysSpawn
    \/ TrapExec
    \/ RemoveApp

NextMem ==
    \/ SysMmap
    \/ SysMunmap
    \/ SysExec

\* the address-space calls of one process, with the call that replaces
\* its address space
SpecMem == Init /\ [][NextMem]_vars

NextPtr ==
    \/ SysGetTime
    \/ SysTaskInfo
    \/ SysWaitpidStore
    \/ SysFork
    \/ SysExit
    \/ SysYield

\* the calls that write through a user pointer, with the calls that make
\* Zombie children to wait for
SpecPtr == Init /\ [][NextPtr]_vars

NextTime ==
    \/ SysGetTime
    \/ SysTaskInfo

\* one task reading the time, started at any reading of the clock
SpecTime == InitTime /\ [][NextTime]_vars

\* the program with a loader that can lose an image between spawn and the
\* spawned task's first dispatch
SpecVanish == Init /\ [][NextVanish]_vars

----------------------------------------------------------------------------
(* Properties *)

\* the children of task p, as a sequence of pids in insertion order
ChildrenOf(p) == tasks[p].children

\* the positions in p's children whose child a waitpid(pid) is about
Matching(p, pid) ==
    {i \in 1 .. Len(ChildrenOf(p)) : pid = 0 - 1 \/ ChildrenOf(p)[i] = pid}

ZombieMatching(p, pid) ==
    {i \in Matching(p, pid) : tasks[ChildrenOf(p)[i]].status = "Zombie"}

\* C1: sys_waitpid returns -1 exactly when no child of the caller matches
\* the pid argument (-1 matches every child), -2 exactly when a child
\* matches and no matching child is Zombie, and otherwise the pid of a
\* matching Zombie child; so the pid of a task that is not the caller's child
\* gives -1 wherever else that task lives.
C1_WaitpidReturn ==
    [][last'.op = "waitpid" =>
         LET pid == last'.args[1]
             m == Matching(current, pid)
             z == ZombieMatching(current, pid)
         IN  /\ (last'.ret = 0 - 1) <=> (m = {})
             /\ (last'.ret = 0 - 2) <=> (m # {} /\ z = {})
             /\ (z # {}) => last'.ret \in {ChildrenOf(current)[i] : i \in z}]_vars

\* a waitpid for the pid of a live task that is not the caller's child, by
\* a caller that has children, has returned -1
C1_Witness ==
    /\ last.op = "waitpid"
    /\ last.ret = 0 - 1
    /\ last.args[1] \in Allocated(K) \ {last.caller}
    /\ ChildrenOf(last.caller) # <<>>

\* C2 as stated, in its last part: once a parent has collected a pid, every
\* later waitpid for that pid by the same parent returns -1.  Here: one step
\* after the collection, with the parent running again in user mode.
C2_Original ==
    [][(/\ last.op = "waitpid"
        /\ last.ret \in Pids
        /\ current' = last.caller
        /\ tasks'[current'].pc = "user")
       => \A ptr \in ExitCodePtrs :
             sys_waitpid(K', last.ret, ptr).ret = 0 - 1]_vars

\* C2: with children of which none has exited, waitpid(-1) returns -2; a
\* task that calls exit(code) is Zombie with that code for as long as it is
\* Zombie; a waitpid(-1) with a Zombie child returns the pid of a Zombie child
\* and stores that child's exit code through the pointer; the collected pid
\* is then no child of the caller, a waitpid for it returns -1, and it
\* becomes a child of the caller again only as the pid of a new task that a
\* fork or spawn of the caller creates.
C2_ExitCodeOnce ==
    [][/\ (last'.op = "waitpid" /\ last'.args[1] = 0 - 1) =>
            LET p == current
                z == {c \in Range(ChildrenOf(p)) : tasks[c].status = "Zombie"}
            IN  /\ (ChildrenOf(p) # <<>> /\ z = {}) => last'.ret = 0 - 2
                /\ (z # {}) =>
                      /\ last'.ret \in z
                      /\ last'.store = <<last'.args[2], tasks[last'.ret].exit_code>>
       /\ (last'.op = "waitpid" /\ last'.ret \in Pids) =>
            /\ last'.ret \notin Range(ChildrenOf(current)')
            /\ current' = current
            /\ sys_waitpid(K', last'.ret, last'.args[2]).ret = 0 - 1
       /\ (last'.op = "exit") =>
            \/ tasks'[current].status = "Free"
            \/ /\ tasks'[current].status = "Zombie"
               /\ tasks'[current].exit_code = last'.args[1]
       /\ \A p \in Pids :
            /\ (tasks[p].status = "Zombie" /\ tasks'[p].status = "Zombie")
                  => tasks'[p].exit_code = tasks[p].exit_code
            /\ \A q \in Pids :
                 (q \notin Range(ChildrenOf(p)) /\ q \in Range(ChildrenOf(p)'))
                    => /\ last'.op \in {"fork", "spawn"}
                       /\ current = p
                       /\ last'.ret = q
                       /\ tasks[q].status = "Free"]_vars

\* a waitpid(-1) has collected a child that exited with code 2 and stored
\* the code
C2_Witness ==
    /\ last.op = "waitpid"
    /\ last.args[1] = 0 - 1
    /\ last.ret \in Pids
    /\ last.store = <<last.args[2], 2>>
    /\ last.ret \notin Range(ChildrenOf(last.caller))

C4_ForkChild ==
    [][/\ last'.op = "fork" =>
            LET c == last'.ret IN
            /\ c \in Pids
            /\ tasks[c].status = "Free"
            /\ ChildrenOf(current)' = Append(ChildrenOf(current), c)
            /\ tasks'[c].parent = current
            /\ tasks'[c].status = "Ready"
            /\ SeqCount(ready', c) = 1
            /\ tasks'[c].trap_cx.x10 = 0
       /\ \A c \in Pids :
            (tasks'[c].status # "Free" /\ tasks'[c].pc = goto_trap_return) =>
                /\ tasks'[c].trap_cx.x10 = 0
                /\ tasks'[c].status = "Ready"
                /\ c \in Range(ready')]_vars

\* a fork whose caller had a nonzero a0 has returned, and the child waits in
\* the run queue for its first dispatch
C4_Witness ==
    /\ last.op = "fork"
    /\ last.args[1] # 0
    /\ last.ret \in Range(ready)
    /\ tasks[last.ret].pc = goto_trap_return
    /\ tasks[last.ret].trap_cx.x10 = 0

\* the kernel state with the result register of task t left out
WithoutA0(k, t) == [k EXCEPT !.tasks[t].trap_cx.x10 = 0]

\* C5: a sys_exec with a path that names no image returns -1 and changes
\* nothing: the caller keeps its address space, trap context, parent,
\* children and status, goes on as the Running task, and every other task
\* and the run queue stay as they were (a0 of the caller's trap context then
\* receives the result, -1).
C5_ExecMissingImage ==
    [][(last'.op = "exec" /\ last'.args[1] \notin apps) =>
         /\ last'.ret = 0 - 1
         /\ sys_exec(K, last'.args[1]).k = K
         /\ WithoutA0(K', current) = WithoutA0(K, current)
         /\ tasks'[current].trap_cx.x10 = 0 - 1
         /\ tasks'[current].status = "Running"]_vars

\* an exec of a missing image has returned -1 to a task that has children
\* and mapped regions
C5_Witness ==
    /\ last.op = "exec"
    /\ last.ret = 0 - 1
    /\ current = last.caller
    /\ ChildrenOf(current) # <<>>
    /\ tasks[current].memory_set.areas # {}

\* C6: a sys_spawn with a path that names no image returns -1 and creates
\* no task: the run queue, the caller's children and the set of pids in use
\* are as before the call.
C6_SpawnMissingImage ==
    [][(last'.op = "spawn" /\ last'.args[1] \notin apps) =>
         /\ last'.ret = 0 - 1
         /\ ready' = ready
         /\ ChildrenOf(current)' = ChildrenOf(current)
         /\ Allocated(K') = Allocated(K)
         /\ WithoutA0(K', current) = WithoutA0(K, current)]_vars

\* a spawn of a missing image has returned -1 while a pid was free
C6_Witness ==
    /\ last.op = "spawn"
    /\ last.ret = 0 - 1
    /\ FreePids(K) # {}
    /\ last.args[1] \notin apps

\* C7: when trap_exec does not find the image of the task's path, the task
\* is off the processor and the run queue, Zombie with exit code 1 (or
\* dropped, when nothing refers to it), and not in user mode; when it finds
\* the image, the task has the image's address space and is the Running task
\* in user mode, not Zombie; and a waitpid that collects a child that ended
\* in trap_exec stores 1.
C7_TrapExec ==
    [][/\ last'.op = "trap_exec" =>
            LET t == current
                path == tasks[t].cmd_path
            IN  IF path \in apps
                THEN /\ current' = t
                     /\ tasks'[t].status = "Running"
                     /\ tasks'[t].pc = "user"
                     /\ tasks'[t].memory_set = MemorySetOf(path)
                ELSE /\ current' # t
                     /\ t \notin Range(ready')
                     /\ \/ tasks'[t].status = "Free"
                        \/ /\ tasks'[t].status = "Zombie"
                           /\ tasks'[t].exit_code = 1
                           /\ tasks'[t].pc # "user"
       /\ (last'.op = "waitpid" /\ last'.ret \in Pids) =>
             (tasks[last'.ret].pc = goto_trap_exec => last'.store[2] = 1)
       /\ \A t \in Pids :
             (tasks[t].status = "Zombie" /\ tasks[t].pc = goto_trap_exec) =>
                 \/ tasks'[t].status = "Free"
                 \/ /\ tasks'[t].status = "Zombie"
                    /\ tasks'[t].pc = goto_trap_exec
                    /\ tasks'[t].exit_code = 1
                    /\ current' # t]_vars

\* a waitpid has collected a child with exit code 1, which only a trap_exec
\* that did not find its image gives
C7_Witness ==
    /\ last.op = "waitpid"
    /\ last.ret \in Pids
    /\ last.store[2] = 1

\* C8: a task that calls exit(code) is Zombie with that code (or dropped,
\* when nothing refers to it); a Zombie task is not in the run queue and is
\* not the Running task; a Zombie task stays Zombie with its code until its
\* control block is dropped; and no task that called exit is switched to
\* again, so the panic behind the call is not reached.
C8_ExitIsFinal ==
    [][/\ last'.op = "exit" =>
            \/ tasks'[current].status = "Free"
            \/ /\ tasks'[current].status = "Zombie"
               /\ tasks'[current].exit_code = last'.args[1]
       /\ \A t \in Pids :
            /\ tasks'[t].status = "Zombie" =>
                  (t \notin Range(ready') /\ current' # t)
            /\ tasks[t].status = "Zombie" =>
                  \/ tasks'[t].status = "Free"
                  \/ /\ tasks'[t].status = "Zombie"
                     /\ tasks'[t].exit_code = tasks[t].exit_code
       /\ ~ panic']_vars

\* a task has called exit(2) and is Zombie with code 2, off the run queue,
\* while another task runs
C8_Witness ==
    /\ last.op = "exit"
    /\ tasks[last.caller].status = "Zombie"
    /\ tasks[last.caller].exit_code = 2
    /\ last.args[1] = 2
    /\ last.caller \notin Range(ready)
    /\ current \in Pids /\ current # last.caller

\* the regions of task p's address space
RegionsOf(p) == tasks[p].memory_set.areas

\* whether two address ranges have an address in common
RangesMeet(s1, e1, s2, e2) ==
    /\ s1 < e1 /\ s2 < e2
    /\ s1 < e2 /\ s2 < e1

\* len rounded up to a page
RoundUp(len) == ((len + PAGE_SIZE - 1) \div PAGE_SIZE) * PAGE_SIZE

\* C9: sys_mmap returns -1 and leaves the caller's address space unchanged
\* whenever start is not page-aligned, or port has a bit set other than
\* bits 0, 1 and 2, or port has none of those three bits set.
C9_MmapRejects ==
    [][last'.op = "mmap" =>
         LET start == last'.args[1]
             port == last'.args[3]
         IN  (\/ start % PAGE_SIZE # 0
              \/ port \div 8 # 0
              \/ port % 8 = 0)
             => /\ last'.ret = 0 - 1
                /\ \A p \in Pids : tasks'[p].memory_set = tasks[p].memory_set]_vars

\* a call with access bits and a bit above them, on a free page, was rejected
C9_Witness ==
    /\ last.op = "mmap"
    /\ last.args = <<PAGE_SIZE, PAGE_SIZE, 10>>
    /\ last.ret = 0 - 1
    /\ \A r \in RegionsOf(last.caller) :
          ~RangesMeet(PAGE_SIZE, 2 * PAGE_SIZE, r.start, r.end)

\* C10: with valid alignment and port, sys_mmap returns -1 for every
\* requested range [start, start + len rounded up to a page) that intersects
\* a region of the caller's address space, and returns 0, mapping the range,
\* for every non-empty range disjoint from all of them; after every call the
\* regions of an address space do not overlap.
C10_MmapOverlap ==
    [][/\ last'.op = "mmap" =>
           LET start == last'.args[1]
               end == start + RoundUp(last'.args[2])
               port == last'.args[3]
               regions == RegionsOf(current)
               meets == \E r \in regions : RangesMeet(start, end, r.start, r.end)
           IN  (start % PAGE_SIZE = 0 /\ port \in 1 .. 7) =>
                 /\ meets => /\ last'.ret = 0 - 1
                             /\ tasks'[current].memory_set.areas = regions
                 /\ (~meets /\ end > start) =>
                       /\ last'.ret = 0
                       /\ \E r \in tasks'[current].memory_set.areas :
                            /\ r.start = start /\ r.end = end
                            /\ tasks'[current].memory_set.areas = regions \cup {r}
       /\ \A p \in Pids : \A r1, r2 \in tasks'[p].memory_set.areas :
              r1 # r2 => ~RangesMeet(r1.start, r1.end, r2.start, r2.end)]_vars

\* a call was refused for a range that reaches into a region mapped by an
\* earlier call
C10_Witness ==
    /\ last.op = "mmap"
    /\ last.args = <<PAGE_SIZE, PAGE_SIZE + 1, 5>>
    /\ last.ret = 0 - 1
    /\ \E r \in RegionsOf(last.caller) :
          r.start = PAGE_SIZE /\ r.end = 2 * PAGE_SIZE

\* C11: for every page-aligned start and every positive len, a sys_mmap that
\* returns 0 followed immediately by sys_munmap with the same start and len
\* returns 0, and the caller's address space is then as before the mmap.
C11_MmapMunmapRoundTrip ==
    [][(/\ last'.op = "mmap"
        /\ last'.ret = 0
        /\ last'.args[1] % PAGE_SIZE = 0
        /\ last'.args[2] > 0)
       => LET r == sys_munmap(K', last'.args[1], last'.args[2])
          IN  /\ r.ret = 0
              /\ r.k.tasks[current].memory_set = tasks[current].memory_set]_vars

\* C12: sys_munmap returns -1 and leaves the address space unchanged
\* whenever [start, start + len) is not exactly the bounds of one existing
\* region of the caller.
C12_MunmapExact ==
    [][last'.op = "munmap" =>
         LET start == last'.args[1]
             len == last'.args[2]
             exact == \E r \in RegionsOf(current) :
                         r.start = start /\ r.end = start + len
         IN  ~exact => /\ last'.ret = 0 - 1
                       /\ \A p \in Pids :
                            tasks'[p].memory_set = tasks[p].memory_set]_vars

\* a munmap of the first page of a two-page region was refused
C12_Witness ==
    /\ last.op = "munmap"
    /\ last.args = <<PAGE_SIZE, PAGE_SIZE>>
    /\ last.ret = 0 - 1
    /\ \E r \in RegionsOf(last.caller) :
          r.start = PAGE_SIZE /\ r.end = 3 * PAGE_SIZE

\* C18: sys_mmap never passes an empty or inverted range to the region
\* allocator: whenever it calls mmap_allocate_area, start_va and end_va are
\* page-aligned and end_va > start_va (so a call with len = 0 fails before
\* it reaches the allocator).
C18_NoEmptyRange ==
    [][last'.op = "mmap" =>
         LET c == mmap_allocate_args(last'.args[1], last'.args[2], last'.args[3])
         IN  c.call => /\ c.start_va % PAGE_SIZE = 0
                       /\ c.end_va % PAGE_SIZE = 0
                       /\ c.end_va > c.start_va]_vars

\* C15: when sys_waitpid removes a Zombie child from the children
\* collection, the removed reference is the only strong reference to the
\* child, and the child's control block and pid are released when waitpid
\* returns, for children created by fork and by spawn alike.
C15_CollectedChildReleased ==
    [][(last'.op = "waitpid" /\ last'.ret \in Pids) =>
          /\ StrongCount(K, last'.ret) = 1
          /\ tasks'[last'.ret].status = "Free"]_vars

\* C16: a sys_spawn that finds the image returns the pid of a new task that
\* is a child of the caller and Ready in the run queue; just before add_task
\* the new task has two strong references (the local one and the one in the
\* caller's children), and the assertion does not fail.
C16_SpawnSuccess ==
    [][(last'.op = "spawn" /\ get_app_data_by_name(K, last'.args[1])) =>
          LET c == last'.ret
              k1 == tcb_spawn(K, c, last'.args[1])
          IN  /\ ~ panic'
              /\ c \in Pids
              /\ tasks[c].status = "Free"
              /\ StrongCount(k1, c) + 1 = 2
              /\ tasks'[c].status = "Ready"
              /\ tasks'[c].parent = current
              /\ ChildrenOf(current)' = Append(ChildrenOf(current), c)
              /\ ready' = Append(ready, c)
              /\ StrongCount(K', c) = 2]_vars

\* a task that has a child already spawned another one
C16_Witness ==
    /\ last.op = "spawn"
    /\ last.ret \in Pids
    /\ ~ panic
    /\ Len(ChildrenOf(last.caller)) = 2
    /\ ChildrenOf(last.caller)[2] = last.ret
    /\ tasks[last.ret].pc = goto_trap_exec

\* the kernel paths that can be taken from the present state: the events of
\* each, and the state in which the tasks it touches exist
AccessPaths ==
    IF panic \/ current \notin Pids THEN {}
    ELSE IF tasks[current].pc = goto_trap_exec
    THEN {[events |-> trap_exec_access(K), k |-> K]}
    ELSE IF tasks[current].pc # "user" THEN {}
    ELSE {[events |-> sys_exit_access(K), k |-> K],
          [events |-> sys_yield_access(K), k |-> K],
          [events |-> sys_get_time_access(K), k |-> K],
          [events |-> sys_task_info_access(K), k |-> K]}
         \cup {[events |-> sys_fork_access(K, n), k |-> tcb_fork(K, n)] :
                 n \in FreePids(K)}
         \cup {[events |-> sys_exec_access(K, path), k |-> K] : path \in Paths}
         \cup {[events |-> sys_waitpid_access(K, pid), k |-> K] : pid \in WaitPids}
         \cup UNION {{[events |-> sys_spawn_access(K, n, path),
                       k |-> tcb_spawn(K, n, path)] : n \in FreePids(K)} :
                       path \in Paths}
         \cup {[events |-> sys_mmap_access(K, start), k |-> K] : start \in Starts}
         \cup {[events |-> sys_munmap_access(K, start), k |-> K] : start \in Starts}

\* the inner states held just before the i-th event of a path
HeldBefore(a, i) == HeldAfter(SubSeq(a.events, 1, i - 1))

\* C19: whenever a kernel path holds exclusive access to the inner state of
\* two tasks at once, it acquired the parent's first and the child's second
\* and releases the child's before the parent's; it never acquires a
\* parent's while it holds a child's.
C19_ParentThenChild ==
    \A a \in AccessPaths : \A i \in 1 .. Len(a.events) :
        LET h == HeldBefore(a, i)
            e == a.events[i]
        IN  /\ (e[1] = "acquire" /\ h # <<>>) =>
                  /\ Len(h) = 1
                  /\ h[1] # e[2]
                  /\ a.k.tasks[e[2]].parent = h[1]
            /\ (e[1] = "release" /\ Len(h) >= 2) => e[2] = h[Len(h)]

\* the caller has a live child ahead of a Zombie child: a waitpid looks at
\* both and collects the second, each while it holds the caller's inner state
C19_Witness ==
    /\ InUser
    /\ Len(ChildrenOf(current)) = 2
    /\ ZombieMatching(current, 0 - 1) = {2}
    /\ Len(sys_waitpid_access(K, 0 - 1)) = 8

\* C20: no exclusive access is held where control leaves the kernel path
\* (the scheduler switch, trap_return, the return to user mode), and no path
\* requests exclusive access to an inner state it holds; so a task that is
\* switched to never finds an inner state borrowed.
C20_NeverBorrowedTwice ==
    \A a \in AccessPaths :
        /\ \A i \in 1 .. Len(a.events) :
              LET h == HeldBefore(a, i)
                  e == a.events[i]
              IN  /\ e[1] = "acquire" => e[2] \notin Range(h)
                  /\ e[1] \in {"switch", "trap_return"} => h = <<>>
        /\ HeldAfter(a.events) = <<>>

\* a spawned task is about to run trap_exec with its image present: the
\* path reads cmd_path, calls exec and goes to trap_return
C20_Witness ==
    /\ current \in Pids
    /\ ~ panic
    /\ tasks[current].pc = goto_trap_exec
    /\ get_app_data_by_name(K, tasks[current].cmd_path)
    /\ Len(trap_exec_access(K)) = 5

\* whether every byte of the size bytes at ptr lies in a region of task p
\* that user code may write
Writable(p, ptr, size) ==
    \A i \in 0 .. (size - 1) :
        \E r \in RegionsAt(tasks[p].memory_set, ptr + i) : "W" \in r.perm

\* the calls that write a value through a user pointer
PointerOps == {"get_time", "task_info", "waitpid"}

\* C13: when the value get_time, task_info or waitpid writes through a user
\* pointer lies in mapped, writable user memory, every byte the kernel writes
\* lands in the physical byte that the user's virtual address of that byte
\* translates to, also when the value straddles two pages whose frames are
\* not adjacent.
C13_StraddleWrite ==
    [][(/\ last'.op \in PointerOps
        /\ Len(last'.store) = 4
        /\ Writable(current, last'.store[1], last'.store[4]))
       => \A i \in 0 .. (last'.store[4] - 1) :
             last'.store[3] + i = translate_va(current, last'.store[1] + i)]_vars

\* C14: a get_time, task_info or waitpid given a user pointer that is
\* unmapped or not writable does not panic the kernel and returns a negative
\* code to the caller, and waitpid then leaves the children collection as
\* it was.
C14_BadPointer ==
    [][(/\ last'.op \in PointerOps
        /\ ~ Writable(current, last'.args[IF last'.op = "waitpid" THEN 2 ELSE 1], 1))
       => /\ ~ panic'
          /\ last'.ret < 0
          /\ last'.op = "waitpid" => ChildrenOf(current)' = ChildrenOf(current)]_vars

\* x <= y for values of wrapping_sub
WordLeq(x, y) == IF x.borrow = y.borrow THEN x.low <= y.low ELSE y.borrow

\* C17: the time sys_task_info computes, t - running_time, never underflows,
\* and of two task_info calls of a task that follow one another the later
\* one writes a time that is not smaller, whatever the clock reads.
C17_TimeMonotone ==
    [][last'.op = "task_info" =>
          /\ task_info_t(last'.args[2]) >= tasks[current].running_time
          /\ (/\ last.op = "task_info"
              /\ last.caller = current
              /\ Len(last.store) = 4
              /\ Len(last'.store) = 4)
             => WordLeq(last.store[2].time, last'.store[2].time)]_vars

====
